---- MODULE Spec2Model ----
(***************************************************************************)
(* Model of gummi-arm-control: the TimingOut slots shared by the sensing   *)
(* thread (PositionDetector.run) and the control thread (get_angle and the *)
(* PIDController built on it).                                             *)
(*                                                                         *)
(* Time is an integer clock (time.time()); a thread may be preempted       *)
(* between any two field accesses, so set() and get() are modelled at the  *)
(* granularity of their individual statements.                             *)
(***************************************************************************)
EXTENDS Integers, Sequences, FiniteSets, TLC

\* ------------------------------------------------------------------ bounds
StartTime == 1          \* time.time() when the detector is constructed
MaxTime == 2            \* the clock is observed up to this instant
MaxContours == 1        \* candidate contours per frame
MaxValue == 2           \* distinct corner sets a glyph is seen at

None == 0               \* Python's None, the initial _value

\* The timeouts a detector is constructed with. A reading outlives timeout 0
\* at the next instant; nothing outlives timeout MaxTime while the clock is
\* observed.
Timeouts == 0..MaxTime
Impls == {"position_detector", "look"}

\* ------------------------------------------------------- glyph patterns
GlyphOrder == <<"ALPHA", "BETA", "GAMMA", "DELTA">>
Glyphs == {GlyphOrder[i] : i \in 1..4}

\* Patterns of which BETA is ALPHA turned by a quarter
GlyphPatternsAmbiguous ==
  [g \in Glyphs |->
     CASE g = "ALPHA" -> <<0,1,0, 1,0,0, 0,1,1>>
       [] g = "BETA"  -> <<0,0,1, 1,0,1, 0,1,0>>
       [] g = "GAMMA" -> <<1,0,1, 0,1,0, 1,0,0>>
       [] g = "DELTA" -> <<1,0,1, 0,0,0, 1,0,0>>]

\* GLYPH_PATTERNS, each 3x3 matrix row by row
GLYPH_PATTERNS ==
  [g \in Glyphs |->
     CASE g = "ALPHA" -> <<0,1,0, 1,0,0, 0,1,1>>
       [] g = "BETA"  -> <<1,1,0, 0,0,0, 0,1,0>>
       [] g = "GAMMA" -> <<1,0,1, 0,1,0, 1,0,0>>
       [] g = "DELTA" -> <<1,0,1, 0,0,0, 1,0,0>>]

\* rotate_image(bitmap, 90): a quarter turn counter-clockwise,
\* new[r][c] = old[c][2-r]
rotate_image(b) ==
  [i \in 1..9 |-> LET r == (i - 1) \div 3
                      c == (i - 1) % 3
                  IN  b[3 * c + (2 - r) + 1]]

\* bitmap_matches_glyph(bitmap, pattern): cell by cell equality
bitmap_matches_glyph(b, p) == \A i \in 1..9 : b[i] = p[i]

\* A loop that tests the bitmap as it comes and never turns it
RotationLoopNoRotate(b, p, k) == <<bitmap_matches_glyph(b, p), b>>

\* The inner loop of _recognize_glyph for one pattern, from rotation k on:
\* <<matched, bitmap as the loop leaves it>>.
RECURSIVE RotationLoop(_, _, _)
RotationLoop(b, p, k) ==
  IF k = 4 THEN <<FALSE, b>>
  ELSE IF bitmap_matches_glyph(b, p) THEN <<TRUE, b>>
  ELSE RotationLoop(rotate_image(b), p, k + 1)

\* _recognize_glyph: the glyph identities set() is called on, in order.
\* The bitmap keeps its rotation from one pattern to the next.
RECURSIVE PatternLoop(_, _)
PatternLoop(b, i) ==
  IF i > 4 THEN <<>>
  ELSE LET res == RotationLoop(b, GLYPH_PATTERNS[GlyphOrder[i]], 0)
       IN  (IF res[1] THEN <<GlyphOrder[i]>> ELSE <<>>) \o PatternLoop(res[2], i + 1)

recognize_glyph(b) == PatternLoop(b, 1)

\* The bitmaps the camera delivers of a glyph: its pattern in every rotation.
Rotations(b) ==
  {b, rotate_image(b), rotate_image(rotate_image(b)),
   rotate_image(rotate_image(rotate_image(b)))}

\* A bitmap of no glyph (and a contour that is no quad is skipped likewise).
NoiseBitmap == <<1,1,1, 1,1,1, 1,1,1>>

\* What _recognize_glyph finds in the bitmaps of glyph g
RecognizedOf == [g \in Glyphs |-> {recognize_glyph(b) : b \in Rotations(GLYPH_PATTERNS[g])}]
RecognizedNoise == recognize_glyph(NoiseBitmap)

\* What _recognize_glyph can find in one contour when the glyphs in `seen`
\* are in the camera's view
Recognized(seen) == {RecognizedNoise} \cup UNION {RecognizedOf[g] : g \in seen}

\* ------------------------------------------------------------ TimingOut
\* TimingOut.__init__
NewTimingOut == [value |-> None, ts |-> 0]

\* A set() that keeps a value already stored
StoreValueOnce(slot, v) == IF slot.value = None THEN [slot EXCEPT !.value = v] ELSE slot

\* TimingOut.set, first statement: self._value = value
StoreValue(slot, v) == [slot EXCEPT !.value = v]

\* TimingOut.set, second statement: self._last_assignment_timestamp = time.time()
StoreTimestamp(slot, t) == [slot EXCEPT !.ts = t]

\* TimingOut.get: expiration = self._last_assignment_timestamp + self._timeout
Expiration(slot, t) == slot.ts + t

\* A get() that already fails at the instant of expiration
TimedOutEarly(t, exp) == t >= exp

\* A get() that still succeeds one instant after expiration
TimedOutLate(t, exp) == t > exp + 1

\* TimingOut.get: if time.time() > expiration: raise TimeoutError
TimedOut(t, exp) == t > exp

\* ------------------------------------------------------------ the state
VARIABLES
  visible,      \* the glyphs in the camera's view
  corners,      \* how many distinct corner sets the camera sees a glyph at
  bitmap,       \* the bitmap of the quad handed to _recognize_glyph
  impl,         \* which module's PositionDetector runs
  timeout,      \* the timeout the detector was constructed with
  now,          \* time.time()
  glyphs,       \* self.glyphs: glyph identity -> TimingOut
  die,          \* self._die
  sPc,          \* sensing thread: where run() stands
  is_open,      \* run(): result of the last camera.read()
  contours,     \* run(): contours of the frame still to be looked at
  pending,      \* _recognize_glyph: identities still to be set() for this quad
  ordered,      \* _recognize_glyph: the ordered corner set being stored
  rPc,          \* control thread: where get_angle() stands
  rIdx,         \* get_angle(): which of the four get() calls is running
  expiration,   \* TimingOut.get(): its local
  vals,         \* get_angle(): the values the get() calls returned so far
  angle,        \* what get_angle() returned last
  lastSet,      \* history: per slot, the value of the last completed set()
  expOwner,     \* history: the value stored by the set() whose timestamp get() read
  readsAfterKill, \* history: frames read since kill() was called
  cPc,          \* control(): where the call stands
  target_angle, \* control(): its arguments
  starting_position,
  target_stiffness,
  starting_angle, \* wait_for_interception(): its argument
  interception_moment, \* self.interception_moment
  current_servo_angle, \* control(): its locals
  current_angle,
  movement_completion,
  stiffness,
  distance,     \* wait_for_interception(): its local
  set_point,    \* self.pid: the regulator's state
  ITerm,
  last_error,
  sent,         \* what raw_controller.send was called with, in order
  updates,      \* history: calls of self.pid.update
  reads,        \* history: calls of position_detector.get_angle by control()
  readings      \* history: the angles those calls returned, in order

vars == <<visible, corners, bitmap, impl, timeout, now, glyphs, die, sPc, is_open, contours, pending,
          ordered, rPc, rIdx, expiration, vals, angle, lastSet, expOwner,
          readsAfterKill, cPc, target_angle, starting_position,
          target_stiffness, starting_angle, interception_moment,
          current_servo_angle, current_angle, movement_completion, stiffness,
          distance, set_point, ITerm, last_error, sent, updates, reads, readings>>

ctlArgs == <<target_angle, starting_position, target_stiffness, starting_angle,
             interception_moment>>
ctlLocals == <<current_servo_angle, current_angle, movement_completion, stiffness,
               distance>>
pidVars == <<set_point, ITerm, last_error>>
ctlVars == <<cPc, ctlArgs, ctlLocals, pidVars, sent, updates, reads, readings>>
detectorVars == <<now, glyphs, die, sPc, is_open, contours, pending, ordered,
                  rPc, rIdx, expiration, vals, angle, lastSet, expOwner,
                  readsAfterKill>>

sensingVars == <<sPc, is_open, contours, pending, ordered>>
readerVars == <<rPc, rIdx, expiration, vals, angle, expOwner>>

\* calculate_angle_4_glyphs: a pure function of the four corner sets
calculate_angle_4_glyphs(a, b, c, d) == (b - a) - (d - c)

\* What stays as constructed: the scene and the detector's parameters
envVars == <<visible, corners, bitmap, impl, timeout>>

DetectorInit ==
  /\ impl \in Impls
  /\ now = StartTime
  /\ glyphs = [g \in Glyphs |-> NewTimingOut]
  /\ die = FALSE
  /\ sPc = "new"
  /\ is_open = TRUE
  /\ contours = 0
  /\ pending = <<>>
  /\ ordered = None
  /\ rPc = "idle"
  /\ rIdx = 1
  /\ expiration = 0
  /\ vals = <<>>
  /\ angle = None
  /\ lastSet = [g \in Glyphs |-> None]
  /\ expOwner = None
  /\ readsAfterKill = 0

\* No control() call is under way
NoControl ==
  /\ cPc = "none"
  /\ target_angle = 0
  /\ starting_position = 0
  /\ target_stiffness = 0
  /\ starting_angle = 0
  /\ interception_moment = None
  /\ current_servo_angle = 0
  /\ current_angle = 0
  /\ movement_completion = 0
  /\ stiffness = 0
  /\ distance = 0
  /\ set_point = 0
  /\ ITerm = 0
  /\ last_error = 0
  /\ sent = <<>>
  /\ updates = 0
  /\ reads = 0
  /\ readings = <<>>

\* The arm in full view, standing still
Init ==
  /\ visible = Glyphs
  /\ corners = 1
  /\ bitmap = <<>>
  /\ timeout \in {0, MaxTime}
  /\ DetectorInit
  /\ NoControl

\* One glyph in view, moving: the other three slots are never set
SlotInit ==
  /\ visible = {"ALPHA"}
  /\ corners = MaxValue
  /\ bitmap = <<>>
  /\ timeout \in Timeouts
  /\ DetectorInit
  /\ NoControl

\* ----------------------------------------------------------- the clock
Tick ==
  /\ now < MaxTime
  /\ now' = now + 1
  /\ UNCHANGED <<envVars, ctlVars, glyphs, die, sensingVars, readerVars, lastSet,
                 readsAfterKill>>

\* ------------------------------------------------------ sensing thread
\* PositionDetector.kill
Kill ==
  /\ die' = TRUE
  /\ UNCHANGED <<envVars, ctlVars, now, glyphs, sensingVars, readerVars, lastSet,
                 readsAfterKill>>

\* run(): camera = self._connect_camera(), which raises IOError without a camera
ConnectCamera ==
  /\ sPc = "new"
  /\ \E found \in BOOLEAN : sPc' = IF found THEN "loop" ELSE "raised"
  /\ UNCHANGED <<envVars, ctlVars, now, glyphs, die, is_open, contours, pending,
                 ordered, readerVars, lastSet, readsAfterKill>>

\* A loop that never looks at the stop flag
LoopContinuesAlways(d) == TRUE

\* run(): the loop condition, self._die is False
LoopContinues(d) == d = FALSE

\* run(): while self._die is False
LoopCheck ==
  /\ sPc = "loop"
  /\ sPc' = IF LoopContinues(die) THEN "read" ELSE "stopped"
  /\ UNCHANGED <<envVars, ctlVars, now, glyphs, die, is_open, contours, pending,
                 ordered, readerVars, lastSet, readsAfterKill>>

\* A loop that tries the camera again after a failed read
OnReadFailureRetry(i) == "loop"

\* run(): what a failed camera.read() leads to: position_detector raises
\* IOError, look breaks out of the loop
OnReadFailure(i) == IF i = "position_detector" THEN "raised" ELSE "stopped"

\* Where the frame loop goes once a quad is done with n contours left
AfterQuad(n) == IF n > 0 THEN "contour" ELSE "loop"

\* run(): is_open, frame = camera.read(), then the contours of the frame
ReadFrame ==
  /\ sPc = "read"
  /\ readsAfterKill' = IF die THEN readsAfterKill + 1 ELSE readsAfterKill
  /\ \E ok \in BOOLEAN, n \in 0..MaxContours :
       /\ is_open' = ok
       /\ IF ok
          THEN /\ contours' = n
               /\ sPc' = AfterQuad(n)
          ELSE /\ contours' = contours
               /\ sPc' = OnReadFailure(impl)
  /\ UNCHANGED <<envVars, ctlVars, now, glyphs, die, pending, ordered, readerVars,
                 lastSet>>

\* _record_glyph_coordinates: one contour; a quad goes to _recognize_glyph
NextContour ==
  /\ sPc = "contour"
  /\ \E found \in Recognized(visible), approx \in 1..corners :
           /\ pending' = found
           /\ IF found = <<>>
              THEN /\ ordered' = ordered
                   /\ contours' = contours - 1
                   /\ sPc' = AfterQuad(contours - 1)
              ELSE /\ ordered' = approx
                   /\ contours' = contours
                   /\ sPc' = "set_value"
  /\ UNCHANGED <<envVars, ctlVars, now, glyphs, die, is_open, readerVars, lastSet,
                 readsAfterKill>>

\* TimingOut.set: self._value = value
SetValue ==
  /\ sPc = "set_value"
  /\ glyphs' = [glyphs EXCEPT ![Head(pending)] = StoreValue(@, ordered)]
  /\ sPc' = "set_timestamp"
  /\ UNCHANGED <<envVars, ctlVars, now, die, is_open, contours, pending, ordered,
                 readerVars, lastSet, readsAfterKill>>

\* TimingOut.set: self._last_assignment_timestamp = time.time()
SetTimestamp ==
  /\ sPc = "set_timestamp"
  /\ glyphs' = [glyphs EXCEPT ![Head(pending)] = StoreTimestamp(@, now)]
  /\ lastSet' = [lastSet EXCEPT ![Head(pending)] = ordered]
  /\ pending' = Tail(pending)
  /\ IF Tail(pending) # <<>>
     THEN /\ sPc' = "set_value"
          /\ contours' = contours
     ELSE /\ sPc' = AfterQuad(contours - 1)
          /\ contours' = contours - 1
  /\ UNCHANGED <<envVars, ctlVars, now, die, is_open, ordered, readerVars,
                 readsAfterKill>>

\* ------------------------------------------------------ control thread
\* The slot the running get() reads
Slot == GlyphOrder[rIdx]

\* get_angle(): a new attempt starts with the ALPHA slot
NewAttempt ==
  /\ rPc' = "expiration"
  /\ rIdx' = 1
  /\ vals' = <<>>
  /\ expiration' = 0
  /\ expOwner' = None

\* A caller (control, wait_for_interception) calls get_angle()
CallGetAngle ==
  /\ rPc \in {"idle", "returned"}
  /\ NewAttempt
  /\ UNCHANGED <<envVars, ctlVars, now, glyphs, die, sensingVars, angle, lastSet,
                 readsAfterKill>>

\* TimingOut.get: expiration = self._last_assignment_timestamp + self._timeout
GetExpiration ==
  /\ rPc = "expiration"
  /\ expiration' = Expiration(glyphs[Slot], timeout)
  /\ expOwner' = lastSet[Slot]
  /\ rPc' = "check"
  /\ UNCHANGED <<envVars, ctlVars, now, glyphs, die, sensingVars, rIdx, vals,
                 angle, lastSet, readsAfterKill>>

\* A get_angle() without the except clause: the TimeoutError leaves it
OnTimeoutErrorPropagate(i) == "raised"

\* A get_angle() that never sleeps before it retries
OnTimeoutErrorSpin(i) == "expiration"

\* get_angle(): the except TimeoutError clause: position_detector sleeps 0.1 s
\* and retries, look retries at once
OnTimeoutError(i) == IF i = "position_detector" THEN "sleep" ELSE "expiration"

\* A get() that clears the slot it finds stale
GetCheckClearing ==
  /\ rPc = "check"
  /\ IF TimedOut(now, expiration)
     THEN /\ rPc' = OnTimeoutError(impl)
          /\ glyphs' = [glyphs EXCEPT ![Slot] = NewTimingOut]
          /\ rIdx' = 1
          /\ vals' = <<>>
          /\ expiration' = 0
          /\ expOwner' = None
     ELSE /\ rPc' = "value"
          /\ UNCHANGED <<glyphs, rIdx, vals, expiration, expOwner>>
  /\ UNCHANGED <<envVars, ctlVars, now, die, sensingVars, angle, lastSet,
                 readsAfterKill>>

\* TimingOut.get: if time.time() > expiration: raise TimeoutError
GetCheck ==
  /\ rPc = "check"
  /\ IF TimedOut(now, expiration)
     THEN /\ rPc' = OnTimeoutError(impl)
          /\ rIdx' = 1
          /\ vals' = <<>>
          /\ expiration' = 0
          /\ expOwner' = None
     ELSE /\ rPc' = "value"
          /\ UNCHANGED <<rIdx, vals, expiration, expOwner>>
  /\ UNCHANGED <<envVars, ctlVars, now, glyphs, die, sensingVars, angle, lastSet,
                 readsAfterKill>>

\* TimingOut.get: return self._value; after the fourth, calculate_angle_4_glyphs
GetValue ==
  /\ rPc = "value"
  /\ LET got == Append(vals, glyphs[Slot].value)
     IN  /\ vals' = got
         /\ IF rIdx < 4
            THEN /\ rIdx' = rIdx + 1
                 /\ rPc' = "expiration"
                 /\ angle' = angle
            ELSE /\ rIdx' = rIdx
                 /\ IF \E i \in 1..4 : got[i] = None
                    THEN /\ rPc' = "raised"
                         /\ angle' = angle
                    ELSE /\ rPc' = "returned"
                         /\ angle' = calculate_angle_4_glyphs(got[1], got[2], got[3], got[4])
  /\ UNCHANGED <<envVars, ctlVars, now, glyphs, die, sensingVars, expiration,
                 expOwner, lastSet, readsAfterKill>>

\* get_angle(): time.sleep(0.1) is over, continue
Wake ==
  /\ rPc = "sleep"
  /\ NewAttempt
  /\ UNCHANGED <<envVars, ctlVars, now, glyphs, die, sensingVars, angle, lastSet,
                 readsAfterKill>>

SensingStep == ConnectCamera \/ LoopCheck \/ ReadFrame \/ NextContour \/ SetValue \/ SetTimestamp
ReaderStep == CallGetAngle \/ GetExpiration \/ GetCheck \/ GetValue \/ Wake

Next == Tick \/ Kill \/ SensingStep \/ ReaderStep

Spec == Init /\ [][Next]_vars
SlotSpec == SlotInit /\ [][Next]_vars

\* Both threads keep being scheduled: every frame read and every sleep returns
FairSpec == Spec /\ WF_vars(SensingStep) /\ WF_vars(ReaderStep)
FairSlotSpec == SlotSpec /\ WF_vars(SensingStep) /\ WF_vars(ReaderStep)

\* --------------------------------------------------------- recognition
\* Every 3x3 bitmap of black and white cells
Bitmaps == [1..9 -> {0, 1}]

\* One frame with one quad in it, whose bitmap can be any; the slots as
\* constructed
RecInit ==
  /\ visible = {}
  /\ corners = MaxValue
  /\ bitmap \in Bitmaps
  /\ impl = "position_detector"
  /\ timeout = 0
  /\ now = StartTime
  /\ glyphs = [g \in Glyphs |-> NewTimingOut]
  /\ die = FALSE
  /\ sPc = "contour"
  /\ is_open = TRUE
  /\ contours = 1
  /\ pending = <<>>
  /\ ordered = None
  /\ rPc = "idle"
  /\ rIdx = 1
  /\ expiration = 0
  /\ vals = <<>>
  /\ angle = None
  /\ lastSet = [g \in Glyphs |-> None]
  /\ expOwner = None
  /\ readsAfterKill = 0
  /\ NoControl

\* _record_glyph_coordinates: the quad goes to _recognize_glyph(bitmap, approx),
\* which finds the identities to set() and orders the corner points
RecognizeGlyph ==
  /\ sPc = "contour"
  /\ \E approx \in 1..corners :
       LET found == recognize_glyph(bitmap)
       IN  /\ pending' = found
           /\ IF found = <<>>
              THEN /\ ordered' = ordered
                   /\ contours' = contours - 1
                   /\ sPc' = AfterQuad(contours - 1)
              ELSE /\ ordered' = approx
                   /\ contours' = contours
                   /\ sPc' = "set_value"
  /\ UNCHANGED <<envVars, ctlVars, now, glyphs, die, is_open, readerVars, lastSet,
                 readsAfterKill>>

RecNext == RecognizeGlyph \/ SetValue \/ SetTimestamp

RecSpec == RecInit /\ [][RecNext]_vars

\* ------------------------------------------------------------- control
\* Angles, stiffness and gains are fixed-point numbers, in hundredths.
Scale == 10 * 10
THRESHOLD == 20         \* THRESHOLD = 0.2
P == 70                 \* P=0.7
I == 20                 \* I=0.2
D == 20                 \* D=0.2
MaxReads == 3           \* get_angle() calls of one control() call observed

\* What the stub position detector returns, and the arguments control() gets
StubAngles == {0, 45 * Scale, 90 * Scale - Scale \div 2, 90 * Scale - THRESHOLD, 90 * Scale}
TargetAngles == {0, 90 * Scale}
StartingPositions == {0, 45 * Scale}
StartingServoAngles == {0}
TargetStiffnesses == {Scale \div 2, Scale}

\* What the stub returns to wait_for_interception, and the arguments it gets
WaitAngles == {0, 50 * Scale, 51 * Scale, 100 * Scale, 150 * Scale}
WaitStartingAngles == {0, 100 * Scale}
WaitTargetAngles == {0, 100 * Scale}
InterceptionMoments == {Scale \div 2}

Abs(x) == IF x < 0 THEN -x ELSE x

\* Python's round(): to the nearest integer, a tie to the even one
round(x) ==
  LET q == x \div Scale
      r == x % Scale
  IN  IF 2 * r < Scale THEN q
      ELSE IF 2 * r > Scale THEN q + 1
      ELSE IF q % 2 = 0 THEN q ELSE q + 1

\* Python's int(): towards zero
int(x) == IF x >= 0 THEN x \div Scale ELSE -((-x) \div Scale)

\* The caller's stiffness function: the identity
stiffness_function(mc) == mc

\* PID.update(measured): P*error + I*ITerm + D*(error - last_error), the
\* integral accumulating the error of every call
PidError(sp, measured) == sp - measured
PidOutput(e, it, le) == (P * e + I * it + D * (e - le)) \div Scale

\* control(): movement_completion and stiffness
MovementCompletion(cur, start, target) == ((cur + start) * Scale) \div Abs(target - start)

\* A stiffness computed from a completion clamped to [0, 1]
StiffnessClamped(mc, ts) ==
  (stiffness_function(IF mc > Scale THEN Scale ELSE IF mc < 0 THEN 0 ELSE mc) * (ts - 0))
    \div Scale + 0

Stiffness(mc, ts) == (stiffness_function(mc) * (ts - 0)) \div Scale + 0

\* control(): if abs(current_angle - target_angle) <= THRESHOLD
WithinThreshold(cur, target) == Abs(cur - target) <= THRESHOLD

\* wait_for_interception(): movement_completion = 1 - abs(current_angle - target_angle) / distance
InterceptionCompletion(cur, target, dist) == Scale - (Abs(cur - target) * Scale) \div dist

\* A wait that also returns at the interception moment itself
InterceptedAtMoment(mc, moment) == mc >= moment

\* wait_for_interception(): if movement_completion > self.interception_moment
Intercepted(mc, moment) == mc > moment

\* The detector is not running while the stub is in its place
DetectorIdle ==
  /\ visible = {}
  /\ corners = 1
  /\ bitmap = <<>>
  /\ impl = "position_detector"
  /\ timeout = 0
  /\ now = StartTime
  /\ glyphs = [g \in Glyphs |-> NewTimingOut]
  /\ die = FALSE
  /\ sPc = "new"
  /\ is_open = TRUE
  /\ contours = 0
  /\ pending = <<>>
  /\ ordered = None
  /\ rPc = "idle"
  /\ rIdx = 1
  /\ expiration = 0
  /\ vals = <<>>
  /\ angle = None
  /\ lastSet = [g \in Glyphs |-> None]
  /\ expOwner = None
  /\ readsAfterKill = 0

\* The locals and the regulator of a call that has not started
CallStart ==
  /\ current_angle = 0
  /\ movement_completion = 0
  /\ stiffness = 0
  /\ distance = 0
  /\ set_point = 0
  /\ ITerm = 0
  /\ last_error = 0
  /\ sent = <<>>
  /\ updates = 0
  /\ reads = 0
  /\ readings = <<>>

\* control(target_angle, starting_servo_angle, target_stiffness, starting_position)
\* is called on a new PIDController
CtlInit ==
  /\ DetectorIdle
  /\ cPc = "called"
  /\ target_angle \in TargetAngles
  /\ starting_position \in StartingPositions
  /\ target_stiffness \in TargetStiffnesses
  /\ current_servo_angle \in StartingServoAngles
  /\ starting_angle = 0
  /\ interception_moment = None
  /\ CallStart

\* wait_for_interception(starting_angle, target_angle) is called on a new
\* PIDController constructed with an interception_moment
WaitInit ==
  /\ DetectorIdle
  /\ cPc = "w_called"
  /\ target_angle \in WaitTargetAngles
  /\ starting_angle \in WaitStartingAngles
  /\ interception_moment \in InterceptionMoments
  /\ starting_position = 0
  /\ target_stiffness = 0
  /\ current_servo_angle = 0
  /\ CallStart

\* self.pid.set_point(target_angle); current_servo_angle = starting_servo_angle
ControlSetPoint ==
  /\ cPc = "called"
  /\ set_point' = target_angle
  /\ cPc' = "get_angle"
  /\ UNCHANGED <<envVars, detectorVars, ctlArgs, ctlLocals, ITerm, last_error,
                 sent, updates, reads, readings>>

\* current_angle = self.position_detector.get_angle()
ControlGetAngle ==
  /\ cPc = "get_angle"
  /\ reads < MaxReads
  /\ \E a \in StubAngles :
       /\ current_angle' = a
       /\ readings' = Append(readings, a)
  /\ reads' = reads + 1
  /\ cPc' = "stiffness"
  /\ UNCHANGED <<envVars, detectorVars, ctlArgs, current_servo_angle,
                 movement_completion, stiffness, distance, pidVars, sent, updates>>

\* A control() that skips the stiffness computation when the planned travel
\* is zero
ControlStiffnessGuarded ==
  /\ cPc = "stiffness"
  /\ cPc' = "threshold"
  /\ IF target_angle = starting_position
     THEN UNCHANGED <<movement_completion, stiffness>>
     ELSE /\ movement_completion' =
               MovementCompletion(current_angle, starting_position, target_angle)
          /\ stiffness' = Stiffness(movement_completion', target_stiffness)
  /\ UNCHANGED <<envVars, detectorVars, ctlArgs, current_servo_angle,
                 current_angle, distance, pidVars, sent, updates, reads, readings>>

\* movement_completion = (current_angle + starting_position) / abs(...), which
\* raises ZeroDivisionError when target_angle = starting_position; stiffness
ControlStiffness ==
  /\ cPc = "stiffness"
  /\ IF target_angle = starting_position
     THEN /\ cPc' = "raised"
          /\ UNCHANGED <<movement_completion, stiffness>>
     ELSE /\ cPc' = "threshold"
          /\ movement_completion' =
               MovementCompletion(current_angle, starting_position, target_angle)
          /\ stiffness' = Stiffness(movement_completion', target_stiffness)
  /\ UNCHANGED <<envVars, detectorVars, ctlArgs, current_servo_angle,
                 current_angle, distance, pidVars, sent, updates, reads, readings>>

\* if abs(current_angle - target_angle) <= THRESHOLD: return
ControlThreshold ==
  /\ cPc = "threshold"
  /\ cPc' = IF WithinThreshold(current_angle, target_angle) THEN "returned" ELSE "update"
  /\ UNCHANGED <<envVars, detectorVars, ctlArgs, ctlLocals, pidVars, sent,
                 updates, reads, readings>>

\* delta_angle = self.pid.update(current_angle); current_servo_angle -= delta_angle
ControlUpdate ==
  /\ cPc = "update"
  /\ LET e == PidError(set_point, current_angle)
         it == ITerm + e
     IN  /\ ITerm' = it
         /\ last_error' = e
         /\ current_servo_angle' = current_servo_angle - PidOutput(e, it, last_error)
  /\ updates' = updates + 1
  /\ cPc' = "send"
  /\ UNCHANGED <<envVars, detectorVars, ctlArgs, current_angle,
                 movement_completion, stiffness, distance, set_point, sent,
                 reads, readings>>

\* self.raw_controller.send(int(current_servo_angle), stiffness)
ControlSend ==
  /\ cPc = "send"
  /\ sent' = Append(sent, <<int(current_servo_angle), stiffness>>)
  /\ cPc' = "sleep"
  /\ UNCHANGED <<envVars, detectorVars, ctlArgs, ctlLocals, pidVars, updates,
                 reads, readings>>

\* A loop that sets the regulator's setpoint in every iteration
AfterSleepSetPoint == "called"

\* control(): while True: the next iteration starts with get_angle()
AfterSleep == "get_angle"

\* time.sleep(0.5), then the next iteration
ControlSleep ==
  /\ cPc = "sleep"
  /\ cPc' = AfterSleep
  /\ UNCHANGED <<envVars, detectorVars, ctlArgs, ctlLocals, pidVars, sent,
                 updates, reads, readings>>

CtlNext ==
  \/ ControlSetPoint
  \/ ControlGetAngle
  \/ ControlStiffness
  \/ ControlThreshold
  \/ ControlUpdate
  \/ ControlSend
  \/ ControlSleep

CtlSpec == CtlInit /\ [][CtlNext]_vars

\* ------------------------------------------------ wait_for_interception
\* distance = abs(target_angle - starting_angle)
WaitDistance ==
  /\ cPc = "w_called"
  /\ distance' = Abs(target_angle - starting_angle)
  /\ cPc' = "w_get_angle"
  /\ UNCHANGED <<envVars, detectorVars, ctlArgs, current_servo_angle,
                 current_angle, movement_completion, stiffness, pidVars, sent,
                 updates, reads, readings>>

\* current_angle = self.position_detector.get_angle()
WaitGetAngle ==
  /\ cPc = "w_get_angle"
  /\ reads < MaxReads
  /\ \E a \in WaitAngles :
       /\ current_angle' = a
       /\ readings' = Append(readings, a)
  /\ reads' = reads + 1
  /\ cPc' = "w_completion"
  /\ UNCHANGED <<envVars, detectorVars, ctlArgs, current_servo_angle,
                 movement_completion, stiffness, distance, pidVars, sent, updates>>

\* movement_completion = 1 - abs(current_angle - target_angle) / distance,
\* which raises ZeroDivisionError when distance is 0
WaitCompletion ==
  /\ cPc = "w_completion"
  /\ IF distance = 0
     THEN /\ cPc' = "raised"
          /\ UNCHANGED movement_completion
     ELSE /\ cPc' = "w_check"
          /\ movement_completion' =
               InterceptionCompletion(current_angle, target_angle, distance)
  /\ UNCHANGED <<envVars, detectorVars, ctlArgs, current_servo_angle,
                 current_angle, stiffness, distance, pidVars, sent, updates,
                 reads, readings>>

\* if movement_completion > self.interception_moment: return
WaitCheck ==
  /\ cPc = "w_check"
  /\ cPc' = IF Intercepted(movement_completion, interception_moment)
            THEN "returned" ELSE "w_sleep"
  /\ UNCHANGED <<envVars, detectorVars, ctlArgs, ctlLocals, pidVars, sent,
                 updates, reads, readings>>

\* sleep(0.001), then the next poll
WaitSleep ==
  /\ cPc = "w_sleep"
  /\ cPc' = "w_get_angle"
  /\ UNCHANGED <<envVars, detectorVars, ctlArgs, ctlLocals, pidVars, sent,
                 updates, reads, readings>>

WaitNext ==
  \/ WaitDistance
  \/ WaitGetAngle
  \/ WaitCompletion
  \/ WaitCheck
  \/ WaitSleep

\* Either method is called on a new PIDController over the stub detector
PidInit == CtlInit \/ WaitInit
PidNext == CtlNext \/ WaitNext
PidSpec == PidInit /\ [][PidNext]_vars

\* =============================================================== claims
\* A get() call decides (its freshness check is made) in this step
GetDecides == rPc = "check" /\ rPc' # "check"
\* A get() call returns its value in this step
GetReturns == rPc = "value" /\ rPc' # "value"
\* The sensing thread is between the two statements of set() on slot g
MidSet(g) == sPc = "set_timestamp" /\ Head(pending) = g
\* get_angle() completes in this step: it returns, or an error leaves it
GetAngleCompletes == rPc \notin {"returned", "raised"} /\ rPc' \in {"returned", "raised"}
SensingStopped == sPc \in {"stopped", "raised"}
Stale(g) == now > glyphs[g].ts + timeout
NeverSet(g) == glyphs[g] = [value |-> None, ts |-> 0]

\* C1: a get() made d time units after the most recent set() on the slot (no
\* set() running in between) succeeds if and only if d <= timeout.
C1_GetSucceedsIffWithinTimeout ==
  [][(/\ GetDecides
      /\ lastSet[Slot] # None
      /\ expiration = glyphs[Slot].ts + timeout)
     => ((rPc' = "value") <=> (now - glyphs[Slot].ts <= timeout))]_vars

\* C1 witness: a get() has succeeded exactly timeout > 0 after the set()
C1_Witness ==
  /\ rPc = "value"
  /\ lastSet[Slot] # None
  /\ timeout > 0
  /\ now - glyphs[Slot].ts = timeout

\* C2: on a slot that was never set, get() fails as stale and never returns
\* the initial None, whatever the timeout and the time.
C2_NeverSetGetFails ==
  /\ (rPc = "value" => ~NeverSet(Slot))
  /\ \A i \in 1..Len(vals) : vals[i] # None

\* C4: a get() that succeeds returns the value stored by the same set()
\* whose timestamp passed its freshness check.
C4_ValueAndTimestampFromOneSet ==
  [][(GetReturns /\ expOwner # None) => vals'[Len(vals')] = expOwner]_vars

\* C5: a get() that succeeds while no set() is in the middle of its two
\* statements returns the value of the last set() on the slot.
C5_LastWriteWins ==
  [][(GetReturns /\ lastSet[Slot] # None /\ ~MidSet(Slot))
     => vals'[Len(vals')] = lastSet[Slot]]_vars

\* C5 witness: the ALPHA slot was set to 1 and then to 2, and get() returned 2
C5_Witness ==
  /\ rPc = "expiration"
  /\ rIdx = 2
  /\ vals = <<2>>
  /\ expOwner = 1
  /\ lastSet["ALPHA"] = 2

\* A slot has been set and its reading is within the timeout
SetAndFresh(g) == glyphs[g].ts # 0 /\ now <= glyphs[g].ts + timeout
AllSetAndFresh == \A g \in Glyphs : SetAndFresh(g)
\* A get_angle() call is under way
InGetAngle == rPc \in {"expiration", "check", "value", "sleep"}
\* The running get() finds its slot stale: the TimeoutError is raised in this step
GetFails == GetDecides /\ rPc' # "value"

\* C3 as claimed: at the instant get_angle() returns, all four slots are fresh.
C3_AllFreshAtReturn ==
  [][(rPc = "value" /\ rPc' = "returned") => \A g \in Glyphs : ~Stale(g)']_vars

\* C3 as amended: get_angle() returns only after, within one attempt, each of
\* the four slots in the order ALPHA, BETA, GAMMA, DELTA passed its own
\* freshness check, each slot being fresh at the instant of its own check.
C3_EachSlotFreshAtItsCheck ==
  [][/\ (rPc = "check" /\ rPc' = "value") => (~Stale(Slot) /\ UNCHANGED <<rIdx, vals>>)
     /\ (rPc # "value" /\ rPc' = "value") => (rPc = "check" /\ Len(vals) = rIdx - 1)
     /\ (vals' # vals /\ vals' # <<>>) => (rPc = "value" /\ Len(vals') = rIdx)
     /\ (rPc # "returned" /\ rPc' = "returned")
          => (rPc = "value" /\ rIdx = 4 /\ Len(vals) = 3)]_vars

\* C3 witness: the angle was returned while the ALPHA slot, fresh at its own
\* check, is stale
C3_Witness ==
  /\ rPc = "returned"
  /\ Len(vals) = 4
  /\ Stale("ALPHA")
  /\ ~Stale("DELTA")

NotPast(g) ==
  \/ rPc \in {"idle", "sleep", "returned", "raised"}
  \/ \E i \in 1..4 : /\ GlyphOrder[i] = g
                     /\ \/ rIdx < i
                        \/ rIdx = i /\ rPc \in {"expiration", "check"}

\* C7 as claimed, for a slot that was set and is stale: once the sensing loop
\* has stopped with such a slot, no get_angle() call, in flight or later,
\* returns or raises.
C7_BlocksForever ==
  [][(SensingStopped /\ \E g \in Glyphs : Stale(g) /\ ~NeverSet(g))
       => ~GetAngleCompletes]_vars

\* Blocked: the sensing loop has stopped and a slot is stale whose check the
\* current attempt has not passed
Blocked == SensingStopped /\ \E g \in Glyphs : Stale(g) /\ NotPast(g)

\* C7 as amended: once the sensing loop has stopped with a slot stale (its
\* timestamp, 0 if never set, more than the timeout ago) whose check the
\* current attempt has not passed, this stays so and no get_angle() call
\* returns or raises.
C7_BlockedStaysBlocked ==
  [][Blocked => (Blocked' /\ ~GetAngleCompletes)]_vars

\* C7 witness: killed, the loop stopped, a slot that was set is stale, and
\* get_angle() sleeps before its next attempt
C7_Witness ==
  /\ die
  /\ sPc = "stopped"
  /\ rPc = "sleep"
  /\ \E g \in Glyphs : Stale(g) /\ lastSet[g] # None

\* The sensing thread is processing a frame
InFrame == sPc \in {"contour", "set_value", "set_timestamp"}

\* C8: after kill() the loop reads at most one further frame, leaves a frame
\* only when all its contours are processed, terminates, and then writes no
\* slot.
C8_KillIsCooperative ==
  /\ [](readsAfterKill <= 1)
  /\ [][(InFrame /\ ~InFrame') => (sPc' = "loop" /\ contours' = 0 /\ pending' = <<>>)]_vars
  /\ die ~> SensingStopped
  /\ [][SensingStopped => (glyphs' = glyphs /\ sPc' = sPc)]_vars

\* C8 witness: kill() came between the loop condition and the read; one more
\* frame was read and processed, and the loop has stopped
C8_Witness ==
  /\ die
  /\ sPc = "stopped"
  /\ readsAfterKill = 1
  /\ is_open
  /\ lastSet["ALPHA"] # None

\* C9: after a failed frame read the loop has stopped (raised in
\* position_detector, left in look), reads no further frame and writes no slot.
C9_ReadFailureIsTerminal ==
  [][~is_open'
       => /\ sPc' = (IF impl = "position_detector" THEN "raised" ELSE "stopped")
          /\ ~is_open => UNCHANGED <<glyphs, sensingVars, readsAfterKill>>]_vars

\* C9 witness: the read failed after a slot had been set, kill() not called
C9_Witness ==
  /\ ~is_open
  /\ ~die
  /\ lastSet["ALPHA"] # None

\* C10: when the first angle read is within THRESHOLD of target_angle,
\* control() returns in that iteration, with no update and nothing sent.
C10_FirstReadWithinThreshold ==
  (/\ reads = 1
   /\ Abs(current_angle - target_angle) <= THRESHOLD
   /\ cPc \notin {"stiffness", "threshold"})
    => (cPc = "returned" /\ updates = 0 /\ sent = <<>>)

\* The position in rs of the first reading within THRESHOLD of the target,
\* Len(rs) + 1 when there is none
FirstWithin(rs, target) ==
  LET hits == {i \in 1..Len(rs) : WithinThreshold(rs[i], target)}
  IN  IF hits = {} THEN Len(rs) + 1 ELSE CHOOSE i \in hits : \A j \in hits : i <= j

\* control() is between two iterations, or has returned
BetweenIterations == cPc \in {"get_angle", "sleep", "returned"}

\* C11: control() sends exactly one command for each reading that precedes
\* the first reading within THRESHOLD of target_angle, returns at that
\* reading, sends nothing afterwards, and leaves its loop only by returning
\* through the threshold check.
C11_OneCommandPerReadingThenReturn ==
  LET k == FirstWithin(readings, target_angle)
  IN  /\ cPc # "raised"
      /\ Len(sent) <= k - 1
      /\ BetweenIterations => Len(sent) = k - 1
      /\ (k <= Len(readings) /\ cPc \notin {"stiffness", "threshold"})
           => (cPc = "returned" /\ k = Len(readings))
      /\ cPc = "returned" => k = Len(readings)

\* A wait_for_interception() call (the controller was given an interception_moment)
Waiting == interception_moment # None
\* wait_for_interception() is between two polls
BetweenPolls == cPc \in {"w_get_angle", "w_sleep"}
\* 1 - |cur - target_angle| / |target_angle - starting_angle| > interception_moment,
\* in exact arithmetic
PastMoment(cur) ==
  LET d == Abs(target_angle - starting_angle)
  IN  (d - Abs(cur - target_angle)) * Scale > interception_moment * d
\* wait_for_interception(0, 100) with interception_moment 0.5
Wait0To100 ==
  /\ Waiting
  /\ starting_angle = 0
  /\ target_angle = 100 * Scale
  /\ interception_moment = Scale \div 2
\* The polls made so far returned at the first reading in `returning`, and
\* at no other
ReturnsExactlyOn(returning) ==
  /\ cPc = "returned"
       => /\ readings[Len(readings)] \in returning
          /\ \A i \in 1..(Len(readings) - 1) : readings[i] \notin returning
  /\ BetweenPolls => \A i \in 1..Len(readings) : readings[i] \notin returning

FractionAtLeastHalf(x) == 2 * (x % Scale) >= Scale /\ x % Scale # 0

\* C13 as claimed: the servo angle of every command sent is
\* round(current_servo_angle), the angle after the regulator's delta was
\* subtracted, rounded to the nearest integer.
C13_SendsRounded ==
  [][cPc = "send"
       => /\ Len(sent') = Len(sent) + 1
          /\ LET n == sent'[Len(sent')][1]
             IN  /\ sent' = Append(sent, <<n, stiffness>>)
                 /\ 2 * Abs(n * Scale - current_servo_angle) <= Scale]_vars

\* C13 as amended: the servo angle of every command sent is
\* int(current_servo_angle), the angle after the regulator's delta was
\* subtracted, truncated towards zero.
C13_SendsTruncated ==
  [][cPc = "send"
       => /\ Len(sent') = Len(sent) + 1
          /\ LET n == sent'[Len(sent')][1]
             IN  /\ sent' = Append(sent, <<n, stiffness>>)
                 /\ Abs(n * Scale) <= Abs(current_servo_angle)
                 /\ Abs(current_servo_angle) < Abs(n * Scale) + Scale
                 /\ n * current_servo_angle >= 0]_vars

\* C13 witness: a command was sent whose servo angle, -0.55, is 0 when
\* truncated and -1 when rounded
C13_Witness ==
  /\ cPc = "sleep"
  /\ current_servo_angle < 0
  /\ current_servo_angle > -Scale
  /\ FractionAtLeastHalf(-current_servo_angle)
  /\ sent[Len(sent)][1] = 0

\* control(90, 0, 1.0, 0) over the stub, its readings starting 0, 45
Scenario0To90 ==
  /\ ~Waiting
  /\ target_angle = 90 * Scale
  /\ starting_position = 0
  /\ target_stiffness = Scale
  /\ Len(readings) >= 2
  /\ readings[1] = 0
  /\ readings[2] = 45 * Scale

\* C14: the stiffness of every command sent is
\* stiffness_function(movement_completion) * target_stiffness, the completion
\* being that of the iteration's reading, unclamped and with the starting
\* stiffness 0; on the readings 0 then 45 of control(90, 0, 1.0, 0) the
\* stiffness values sent increase strictly and lie in [0, 1].
C14_StiffnessSent ==
  /\ \A i \in 1..Len(sent) :
       sent[i][2] =
         (stiffness_function(((readings[i] + starting_position) * Scale)
                               \div Abs(target_angle - starting_position))
            * target_stiffness) \div Scale
  /\ Scenario0To90
       => LET first == {i \in 1..Len(sent) : i <= 2}
          IN  /\ \A i \in first : sent[i][2] >= 0 /\ sent[i][2] <= Scale
              /\ \A i, j \in first : i < j => sent[i][2] < sent[j][2]

\* C14 witness: control(90, 0, 1.0, 0) read 0, 45, 90, sent the stiffness
\* values 0 and 0.5 and returned
C14_Witness ==
  /\ Scenario0To90
  /\ readings = <<0, 45 * Scale, 90 * Scale>>
  /\ cPc = "returned"
  /\ Len(sent) = 2
  /\ sent[1][2] = 0
  /\ sent[2][2] = Scale \div 2

\* movement_completion is that of the reading in current_angle
CompletionComputed ==
  /\ ~Waiting
  /\ cPc \in {"threshold", "update", "send", "sleep", "returned"}

\* C15: for starting_position # target_angle, the movement_completion that
\* control() computes is 0 when current_angle is the starting position and 1
\* when it is the target angle.
C15_CompletionIsFractionOfTravel ==
  (CompletionComputed /\ starting_position # target_angle)
    => /\ current_angle = starting_position => movement_completion = 0
       /\ current_angle = target_angle => movement_completion = Scale

\* The order of the steps of control(): each step and the one it leads to.
\* The stiffness step leads nowhere when its division fails.
StepOrder ==
  {<<"called", "get_angle">>, <<"get_angle", "stiffness">>,
   <<"stiffness", "threshold">>, <<"stiffness", "raised">>,
   <<"threshold", "returned">>, <<"threshold", "update">>,
   <<"update", "send">>, <<"send", "sleep">>, <<"sleep", "get_angle">>}

\* C19: control() sets the regulator's setpoint to target_angle once, before
\* the first angle read; every iteration goes read angle, stiffness,
\* threshold check, regulator update, actuator send, sleep; the update is
\* called once per command sent and not in the iteration that returns.
C19_SetPointOnceThenOrderedIterations ==
  /\ [][cPc = "called"
          => (cPc' = "get_angle" /\ set_point' = target_angle /\ reads = 0)]_vars
  /\ [][cPc # "called" => (cPc' # "called" /\ set_point' = set_point)]_vars
  /\ [][/\ cPc' # cPc => <<cPc, cPc'>> \in StepOrder
        /\ reads' # reads => (cPc = "get_angle" /\ reads' = reads + 1)
        /\ stiffness' # stiffness => cPc = "stiffness"
        /\ cPc = "update" => (updates' = updates + 1 /\ sent' = sent)
        /\ updates' # updates => cPc = "update"
        /\ cPc = "send" => Len(sent') = Len(sent) + 1
        /\ sent' # sent => cPc = "send"]_vars
  /\ [](updates = Len(sent) + (IF cPc = "send" THEN 1 ELSE 0))
  /\ [](cPc = "returned" => (updates = reads - 1 /\ Len(sent) = reads - 1))

\* C19 witness: control() returned in its third iteration, after two updates
\* and two commands, the setpoint at a target_angle other than the initial 0
C19_Witness ==
  /\ cPc = "returned"
  /\ ~Waiting
  /\ target_angle # 0
  /\ set_point = target_angle
  /\ reads = 3
  /\ updates = 2
  /\ Len(sent) = 2

\* C20: with target_angle = starting_position, control() fails with
\* ZeroDivisionError in its first iteration, before the threshold check, also
\* when the reading is within THRESHOLD of target_angle, and sends nothing;
\* with starting_angle = target_angle, wait_for_interception() fails on its
\* first poll and does not return.
C20_ZeroTravelDividesByZero ==
  /\ (~Waiting /\ target_angle = starting_position)
       => /\ cPc \in {"called", "get_angle", "stiffness", "raised"}
          /\ (reads >= 1 /\ cPc # "stiffness") => (cPc = "raised" /\ reads = 1)
          /\ sent = <<>>
          /\ updates = 0
  /\ (Waiting /\ target_angle = starting_angle)
       => /\ cPc \in {"w_called", "w_get_angle", "w_completion", "raised"}
          /\ (reads >= 1 /\ cPc # "w_completion") => (cPc = "raised" /\ reads = 1)

\* C20 witness: control() failed on a first reading within THRESHOLD of its
\* target_angle
C20_Witness ==
  /\ ~Waiting
  /\ cPc = "raised"
  /\ target_angle = starting_position
  /\ reads = 1
  /\ WithinThreshold(current_angle, target_angle)

\* _recognize_glyph has returned: the frame's one quad is dealt with
QuadDone == sPc = "loop"
\* The slots that were written, or are being written
Written == {g \in Glyphs : glyphs[g].value # None}

\* C16: a bitmap that is a glyph's pattern turned by 0, 90, 180 or 270
\* degrees is recorded in that glyph's slot, with the ordered corner set of
\* the quad, whichever turn it comes in.
C16_RotationInvariant ==
  \A g \in Glyphs :
    (QuadDone /\ bitmap \in Rotations(GLYPH_PATTERNS[g]))
      => /\ ordered # None
         /\ lastSet[g] = ordered
         /\ glyphs[g].value = ordered

\* C16 witness: the BETA pattern came turned by a half turn and was recorded
\* as BETA
C16_Witness ==
  /\ QuadDone
  /\ bitmap = rotate_image(rotate_image(GLYPH_PATTERNS["BETA"]))
  /\ bitmap # GLYPH_PATTERNS["BETA"]
  /\ lastSet["BETA"] = MaxValue

\* C17: one quad writes at most one slot: whatever the bitmap, and so also
\* for each pattern in each rotation, the search through all four patterns
\* records it under no second identity.
C17_AtMostOneSlotPerQuad ==
  /\ Len(pending) <= 1
  /\ Cardinality(Written) <= 1
  /\ \A g \in Glyphs : lastSet[g] # None => Written = {g}

\* C17 witness: the ALPHA pattern came turned by a quarter, matched after
\* the loop had turned it, and the search through the remaining patterns
\* recorded nothing else
C17_Witness ==
  /\ QuadDone
  /\ bitmap = rotate_image(GLYPH_PATTERNS["ALPHA"])
  /\ Written = {"ALPHA"}
  /\ lastSet["ALPHA"] # None

\* C18: a set() changes only the slot of the identity being recorded; a quad
\* that matches no pattern changes no slot; no step of get() or get_angle(),
\* succeeding or failing as stale, changes a slot; and a stale slot stays
\* stale until a set() on it stores its timestamp.
C18_OnlySetWritesItsSlot ==
  [][/\ glyphs' # glyphs
          => /\ sPc \in {"set_value", "set_timestamp"}
             /\ \A g \in Glyphs \ {Head(pending)} : glyphs'[g] = glyphs[g]
     /\ (sPc = "contour" /\ pending' = <<>>) => glyphs' = glyphs
     /\ rPc' # rPc => glyphs' = glyphs
     /\ \A g \in Glyphs :
          (Stale(g) /\ ~Stale(g)') => (sPc = "set_timestamp" /\ Head(pending) = g)]_vars

\* C18 witness: ALPHA was recorded and has gone stale, a get() on it failed,
\* and BETA is still as constructed
C18_Witness ==
  /\ lastSet["ALPHA"] # None
  /\ Stale("ALPHA")
  /\ rPc = "sleep"
  /\ NeverSet("BETA")

====
